---- MODULE Spec2Model ----
(* Model of the HTTP helper of deno911/911: handleRequest, serve,          *)
(* serveStatic (http.ts), json (json.ts) and the process-wide response     *)
(* cache (cache.ts).  Requests are dispatched concurrently: every action   *)
(* is the code one request runs between two await points.                  *)
EXTENDS Integers, Sequences, FiniteSets, TLC

\* ------------------------------------------------------------------ bounds
\* number of handleRequest calls in one behaviour
MaxRequests == 2
\* number of serve() calls in one behaviour
MaxServes == 1
\* number of put() calls made on the exported globalCache by library users
MaxPuts == 1
\* number of serve() calls in a behaviour made of serve() calls only
MaxServeCalls == 4
\* number of calls of memoized functions
MaxMemoCalls == 3
\* number of wrapper and reset calls on a singleton promise
MaxSingCalls == 4
\* number of run() and wait() calls on a promise lock
MaxLockCalls == 4
\* number of calls of a throttled or debounced function
MaxTimerCalls == 3
\* milliseconds the clock runs for
MaxTime == 5
\* largest `delay` a function is throttled or debounced with
MaxDelay == 2
\* number of State instances constructed
MaxStates == 2
\* number of set, delete and clear calls on State instances
MaxStateOps == 2
\* number of Params.parse calls
MaxParses == 2
\* number of sources given to one Params.parse call
MaxSources == 2
\* number of distinct() calls on the parsed Params
MaxDistincts == 2
\* number of createCache() calls after module load
MaxCreates == 2
\* distinct requests put in globalCache beyond its capacity
MaxOverflow == 2

\* request slots: requests that can be in flight at the same time
Slots == {"r1", "r2"}

\* --------------------------------------------------------------- constants
\* cache.ts:7
CACHE_CAPACITY == 20
\* imported by http.ts:344; the ceiling is 10 MiB
CACHE_MAX_SIZE == 10 * 1024 * 1024

Undefined == "undefined"

\* ---------------------------------------------------------------- values
\* A Response: status, the content-length header (-1: the header is absent),
\* the size of the body, who built it, the x-function-cache-hit header and
\* the `error` field of a JSON error body.
MkResponse(status, cl, size, src) ==
  [status |-> status, cl |-> cl, size |-> size, src |-> src,
   hit |-> FALSE, err |-> ""]

NoResponse == MkResponse(0, -1, 0, "none")

\* what a call of a handler (or of an awaited callback) ends with
Return(r) == [t |-> "resp", r |-> r, name |-> "", msg |-> ""]
ReturnView == [t |-> "view", r |-> NoResponse, name |-> "", msg |-> ""]
Throw(name, msg) == [t |-> "throw", r |-> NoResponse, name |-> name, msg |-> msg]

\* handlers
User(id) == [kind |-> "user", id |-> id, cache |-> FALSE, intervene |-> FALSE]
Static(cache, intervene) ==
  [kind |-> "static", id |-> "serveStatic", cache |-> cache, intervene |-> intervene]
DefaultNotFoundPage ==
  [kind |-> "default404", id |-> "defaultNotFoundPage", cache |-> FALSE,
   intervene |-> FALSE]

\* route keys: a pathname pattern is the sequence of its parts
Lit(v) == [t |-> "lit", v |-> v]
Named(v) == [t |-> "one", v |-> v]
Plus(v) == [t |-> "plus", v |-> v]
\* the key 404: a pattern without a leading slash
Key404 == <<[t |-> "rel", v |-> "404"]>>

Route(key, h) == [key |-> key, h |-> h]

EmptyParams == <<>>

\* ------------------------------------------------------- URLPattern model
Max(S) == CHOOSE x \in S : \A y \in S : y <= x

NoMatch == [ok |-> FALSE, groups |-> EmptyParams]

RECURSIVE PatternExec(_, _)
\* new URLPattern({ pathname: key }).exec({ pathname }): the named groups.
\* A pathname is the sequence of its segments; a group's value is the
\* sequence of the segments it matched (one for :name, one or more for :name+)
PatternExec(pat, p) ==
  IF pat = <<>> THEN [ok |-> p = <<>>, groups |-> EmptyParams]
  ELSE
    LET part == Head(pat)
        rest == Tail(pat)
    IN CASE part.t = "rel" -> NoMatch
         [] part.t = "lit" ->
              IF p # <<>> /\ Head(p) = part.v
                THEN PatternExec(rest, Tail(p)) ELSE NoMatch
         [] part.t = "one" ->
              IF p = <<>> THEN NoMatch
              ELSE LET m == PatternExec(rest, Tail(p))
                   IN IF m.ok
                        THEN [ok |-> TRUE,
                              groups |-> (part.v :> <<Head(p)>>) @@ m.groups]
                        ELSE NoMatch
         [] part.t = "plus" ->
              LET ks == {k \in 1..Len(p) :
                           PatternExec(rest, SubSeq(p, k + 1, Len(p))).ok}
              IN IF ks = {} THEN NoMatch
                 ELSE LET k == Max(ks)
                          m == PatternExec(rest, SubSeq(p, k + 1, Len(p)))
                      IN [ok |-> TRUE,
                          groups |-> (part.v :> SubSeq(p, 1, k)) @@ m.groups]

PatternTest(pat, p) == PatternExec(pat, p).ok

\* ---------------------------------------------------------- route tables
\* A Routes object is the sequence of its entries in Object.keys order: the
\* integer key 404 first, the string keys in insertion order.
HasKey(tbl, key) == \E j \in 1..Len(tbl) : tbl[j].key = key

Lookup(tbl, key) == tbl[CHOOSE j \in 1..Len(tbl) : tbl[j].key = key].h

RECURSIVE Spread(_, _)
\* { ...a, ...b }
Spread(a, b) ==
  IF b = <<>> THEN a
  ELSE LET e == Head(b)
           a1 == IF HasKey(a, e.key)
                   THEN [j \in 1..Len(a) |->
                           IF a[j].key = e.key THEN e ELSE a[j]]
                 ELSE IF e.key = Key404 THEN <<e>> \o a
                 ELSE Append(a, e)
       IN Spread(a1, Tail(b))

\* http.ts: let routes = { 404: defaultNotFoundPage }
InitialRoutes == <<Route(Key404, DefaultNotFoundPage)>>

HelloName == <<Lit("hello"), Named("name")>>
HelloRest == <<Lit("hello"), Plus("rest")>>
CatchAll == <<Plus("x")>>
FileName == <<Plus("filename")>>

\* { "/hello/:name": h, "/hello/:rest+": g, 404: nf }
T1 == <<Route(Key404, User("nf")), Route(HelloName, User("h")),
        Route(HelloRest, User("g"))>>
\* { "/:filename+": serveStatic(dir, { baseUrl, intervene }), 404: nf }
T2 == <<Route(Key404, User("nf")), Route(FileName, Static(TRUE, TRUE))>>
\* { "/:filename+": serveStatic(dir, { baseUrl, cache: false }), 404: nf }
T3 == <<Route(Key404, User("nf")), Route(FileName, Static(FALSE, FALSE))>>
\* { "/:x+": g, "/hello/:name": h }
T4 == <<Route(CatchAll, User("g")), Route(HelloName, User("h"))>>

\* tables passed to handleRequest directly: they carry their own 404 entry
DirectTables == {T1, T2, T3}
\* tables passed to serve()
UserTables == {T2, T4}

\* request pathnames
Paths == {<<"big">>, <<"p">>, <<"hello", "Ada">>}

\* ------------------------------------------------------------------ state
VARIABLES
  cache,    \* the entries of globalCache
  routes,   \* the module-level `routes` of http.ts
  reqs,     \* per slot: the handleRequest call in flight
  nReq,     \* handleRequest calls so far
  nServe,   \* serve() calls so far
  nPut,     \* put() calls by users of globalCache so far
  registry, \* cache.ts `cache`: id -> instance number (0: no own property)
  insts,    \* capacity of every instance inMemoryCache() has created
  returned, \* the <<id, instance>> pairs createCache has returned
  nCreate,  \* createCache() calls after module load
  nFresh,   \* distinct requests put in globalCache by the cache workload
  served,   \* the table the last serve() call was given
  val,      \* a call of validateRequest: its inputs, position and result
  jsn,      \* a call of json: its inputs, position and result
  memo,     \* memoize.ts: the cache of defaultOptions, the promises made by
            \* wrapped functions, and the history of calls
  sing,     \* a createSingletonPromise wrapper: _promise and its history
  lock,     \* a createPromiseLock lock: locks, its tasks and wait() calls
  tmr,      \* a throttled or debounced function: its timer and history
  sta,      \* State instances
  par       \* Params instances

\* the state of cache.ts
cacheVars == <<registry, insts, returned, nCreate, nFresh>>
\* the state the request handlers never touch
\* the state of the utility modules (memoize.ts, promises.ts, ...)
utilVars == <<memo, sing, lock, tmr, sta, par>>
libVars == <<cacheVars, served, val, jsn, utilVars>>

vars == <<cache, routes, reqs, nReq, nServe, nPut, libVars>>

\* ------------------------------------------------------------ createCache
\* cache.ts:9 globalCacheKey, and the other ids callers pass
GlobalCacheKey == "deno911"
CacheIds == {GlobalCacheKey, "assets", "toString"}

\* variant: the instance is created one entry larger than asked
InstanceCapacityOffByOne(capacity) == capacity + 1

\* cache.ts:12 inMemoryCache(capacity): the capacity of the new instance
InstanceCapacity(capacity) == capacity

\* the capacity of the instance http.ts imports as globalCache
GlobalCapacity == insts[1]

\* cache.ts:3 `const cache = {}`: a plain object, so cache[id] reads an own
\* property or else a member inherited from Object.prototype
NoMember == 0
InheritedMember == -1
CacheRead(reg, id) ==
  IF reg[id] # NoMember THEN reg[id]
  ELSE IF id = "toString" THEN InheritedMember ELSE NoMember

\* variant: plain assignment, a new instance on every call
Assign(cur, new) == new

\* cache.ts:12 `cache[id] ??= ...`: assigns only when cache[id] is nullish
NullishAssign(cur, new) == IF cur = NoMember THEN new ELSE cur

\* the capacities callers ask for: the default and a smaller one
Capacities == {CACHE_CAPACITY, 1}

\* --------------------------------------------------------- response cache
\* The cache is the sequence of its entries, oldest insertion first; `by`
\* records who made the put ("static": serveStatic, "api": a user of the
\* exported globalCache).
CacheFind(c, key) == {j \in 1..Len(c) : c[j].key = key}

\* globalCache.match(request): the stored response, or undefined
CacheMatch(c, key) ==
  IF CacheFind(c, key) = {}
    THEN [found |-> FALSE, r |-> NoResponse]
    ELSE [found |-> TRUE, r |-> c[CHOOSE j \in CacheFind(c, key) : TRUE].r]

\* globalCache.put(request, response): at most `capacity` entries are kept,
\* the oldest inserted is evicted first
CachePut(c, key, r, by, capacity) ==
  LET others == SelectSeq(c, LAMBDA e : e.key # key)
      all == Append(others, [key |-> key, r |-> r, by |-> by])
  IN IF Len(all) > capacity THEN Tail(all) ELSE all

\* ------------------------------------------------------------------ json
\* json(data, init) of json.ts for a serializable payload { error: msg }:
\* `const { statusText = ... } = init?.statusText` destructures undefined
\* unless the caller passed a statusText
Json(msg, init) ==
  IF init.statusText = Undefined
    THEN Throw("TypeError", "Cannot destructure property 'statusText'")
    ELSE Return([MkResponse(init.status, 1, 1, "json") EXCEPT !.err = msg])

\* the init handleRequest passes: { status: 500 }
Init500 == [status |-> 500, statusText |-> Undefined]

\* jsx(view): a text/html Response with status 200
Jsx == MkResponse(200, -1, 1, "jsx")

\* ----------------------------------------------------------- file system
\* Deno.readFile(fileUrl) for the files under relativePath: `big` is larger
\* than the ceiling, `p` cannot be read, the directory itself is not a file,
\* every other name is missing
ReadFile(filename) ==
  CASE filename = <<"big">> -> [ok |-> TRUE, size |-> CACHE_MAX_SIZE + 1, name |-> ""]
    [] filename = <<"p">> -> [ok |-> FALSE, size |-> 0, name |-> "PermissionDenied"]
    [] filename = <<>> -> [ok |-> FALSE, size |-> 0, name |-> "Error"]
    [] OTHER -> [ok |-> FALSE, size |-> 0, name |-> "NotFound"]

\* variant: `types` is bound to the media type table
LookupMediaTypeBound(filePath) ==
  [threw |-> FALSE, name |-> "", type |-> "application/octet-stream"]

\* lookupMediaType(pathname): `types` is bound nowhere in http.ts
LookupMediaType(filePath) ==
  [threw |-> TRUE, name |-> "ReferenceError", type |-> Undefined]

\* +(response.headers.get("content-length")): +null is 0
HeaderNumber(cl) == IF cl = -1 THEN 0 ELSE cl

\* what the intervene callback can do with the response it is given
InterveneOutcomes == {"same", "setlen", "s404", "throw"}

Intervene(r, iv) ==
  CASE iv = "same" -> Return(r)
    [] iv = "setlen" -> Return([r EXCEPT !.cl = r.size])
    [] iv = "s404" -> Return(MkResponse(404, -1, 1, "intervene"))
    [] OTHER -> Throw("Error", "intervene failed")

\* the `call404` outcome: serveStatic returns routes[404](request, connInfo, {})
Call404 == [t |-> "call404", r |-> NoResponse, name |-> "", msg |-> ""]

\* variant: the response is put in the cache as soon as the file is read,
\* before the steps that can throw
StaticAfterReadPutFirst(h, key, filename, c, iv) ==
  LET body == ReadFile(filename)
      r0 == MkResponse(200, -1, body.size, "file")
      mt == LookupMediaType(filename)
      none == [out |-> Call404, cache |-> c, built |-> FALSE,
               stored |-> FALSE, sresp |-> NoResponse, readErr |-> ""]
  IN IF ~body.ok
       THEN [none EXCEPT !.out = Throw(body.name, "read failed"),
                         !.readErr = body.name]
     ELSE IF mt.threw
       THEN [none EXCEPT !.out = Throw(mt.name, "types is not defined"),
                         !.cache = CachePut(c, key, r0, "static", GlobalCapacity),
                         !.built = TRUE, !.stored = TRUE, !.sresp = r0]
     ELSE [none EXCEPT !.out = Return(r0), !.built = TRUE, !.sresp = r0]

\* serveStatic from the resolution of Deno.readFile to its return
\* (http.ts lines 558-580), for the handler options h, the request key, the
\* cache c and the intervene outcome iv
StaticAfterRead(h, key, filename, c, iv) ==
  LET body == ReadFile(filename)
      r0 == MkResponse(200, -1, body.size, "file")
      mt == LookupMediaType(filename)
      ivo == IF h.intervene THEN Intervene(r0, iv) ELSE Return(r0)
      r2 == ivo.r
      store == h.cache /\ HeaderNumber(r2.cl) < CACHE_MAX_SIZE
      none == [out |-> Call404, cache |-> c, built |-> FALSE,
               stored |-> FALSE, sresp |-> NoResponse, readErr |-> ""]
  IN IF ~body.ok
       THEN [none EXCEPT !.out = Throw(body.name, "read failed"),
                         !.readErr = body.name]
     ELSE IF mt.threw
       THEN [none EXCEPT !.out = Throw(mt.name, "types is not defined"),
                         !.built = TRUE, !.sresp = r0]
     ELSE IF ivo.t = "throw"
       THEN [none EXCEPT !.out = ivo, !.built = TRUE, !.sresp = r0]
     ELSE [out |-> IF r2.status = 404 THEN Call404 ELSE Return(r2),
           cache |-> IF store
                       THEN CachePut(c, key, r2, "static", GlobalCapacity)
                       ELSE c,
           built |-> TRUE, stored |-> store, sresp |-> r2, readErr |-> ""]

NoResult == [t |-> "none", r |-> NoResponse, name |-> ""]

\* a slot with no call in flight
Idle ==
  [pc |-> "idle", path |-> <<>>, tbl |-> <<>>,
   calls |-> <<>>,        \* handler invocations: [who, idx, params, h]
   hitAtMatch |-> FALSE,  \* the dispatcher's cache lookup found a response
   held |-> NoResponse,   \* what the cache held for the request then
   thrown |-> "",         \* name of the error the route handler threw
   thrownMsg |-> "",      \* and its message
   readErr |-> "",        \* name of the error Deno.readFile threw
   json |-> 0,            \* calls of json() made for this request
   sHit |-> FALSE,        \* serveStatic's own cache lookup found a response
   built |-> FALSE,       \* serveStatic built a response from the file
   stored |-> FALSE,      \* serveStatic put it in the cache
   sresp |-> NoResponse,  \* the response serveStatic built
   res |-> NoResult]

Call(who, idx, params, h) ==
  [who |-> who, idx |-> idx, params |-> params, h |-> h]

\* cache.ts after module load: globalCache = createCache()
CacheInit ==
  /\ registry = [id \in CacheIds |-> IF id = GlobalCacheKey THEN 1 ELSE 0]
  /\ insts = <<InstanceCapacity(CACHE_CAPACITY)>>
  /\ returned = {[id |-> GlobalCacheKey, capacity |-> CACHE_CAPACITY, inst |-> 1]}
  /\ nCreate = 0
  /\ nFresh = 0

\* http.ts after module load
HttpInit ==
  /\ cache = <<>>
  /\ routes = InitialRoutes
  /\ reqs = [i \in Slots |-> Idle]
  /\ nReq = 0
  /\ nServe = 0
  /\ nPut = 0
  /\ served = <<>>

\* no call of validateRequest
ValIdle ==
  [pc |-> "idle", method |-> "", params |-> {}, headers |-> {},
   body |-> "none", terms |-> <<>>, bodyRead |-> FALSE,
   res |-> [t |-> "none", error |-> FALSE, status |-> 0, msg |-> <<>>,
            body |-> FALSE, keys |-> {}, name |-> ""]]

\* ---------------------------------------------------- json(data, init)
\* init.status is undefined
NoStatus == 0
\* the header sets callers pass as init.headers (names as
\* new Headers(init.headers).entries() yields them, in lower case)
NoHeaders == [n \in {} |-> ""]
InitHeaders ==
  {NoHeaders,
   [n \in {"content-type"} |-> "text/plain"],
   [n \in {"access-control-allow-origin"} |-> "https://a.example"],
   [n \in {"x-id"} |-> "1"]}
\* the init objects callers pass; the first is `{}`, which is also what the
\* parameter defaults to when no init is passed
JsonInits ==
  [status : {NoStatus, 201, 204}, statusText : {Undefined, "Created"},
   headers : InitHeaders]

\* JSON.stringify(data, replacer, space) for { a: 1 }, an object that
\* refers to itself, a BigInt, undefined, and the payload { error: msg }
JsonStringify(data) ==
  CASE data = "cyclic" ->
         [threw |-> TRUE, msg |-> "Converting circular structure to JSON",
          defined |-> FALSE]
    [] data = "bigint" ->
         [threw |-> TRUE, msg |-> "Do not know how to serialize a BigInt",
          defined |-> FALSE]
    [] data = "undefined" -> [threw |-> FALSE, msg |-> "", defined |-> FALSE]
    [] OTHER -> [threw |-> FALSE, msg |-> "", defined |-> TRUE]

\* json.ts:55 { status: 500, space, ...init }: a status of init comes last
\* and wins
ErrorInit(init) ==
  [init EXCEPT !.status = IF init.status = NoStatus THEN 500 ELSE init.status]

\* json.ts:58-65 new Headers({ defaults, ...init headers in lower case }):
\* every pair is appended, so a name init.headers repeats gets both values
JsonHeaders(defined, initHeaders) ==
  LET dflt == {"content-type", "content-length", "access-control-allow-origin",
               "access-control-allow-headers", "access-control-allow-methods"}
      d(n) == CASE n = "content-type" -> <<"application/json; charset=utf-8">>
                [] n = "content-length" -> <<IF defined THEN "length" ELSE "0">>
                [] OTHER -> <<"*">>
  IN [n \in dflt \cup DOMAIN initHeaders |->
        IF n \in dflt /\ n \in DOMAIN initHeaders
          THEN Append(d(n), initHeaders[n])
        ELSE IF n \in dflt THEN d(n)
        ELSE <<initHeaders[n]>>]

\* json.ts:67-69 `const { statusText = ... } = init?.statusText`:
\* destructuring undefined throws
DestructureStatusText(init) == init.statusText = Undefined

\* part_007:161-164 `const { status = ..., statusText = ... } = init`
DestructureInit(init) == FALSE

\* new Response(body, { status }): a null body status with a body throws
ResponseThrows(status, defined) == status \in {204, 205, 304} /\ defined

NoJsonResponse == [status |-> 0, headers |-> NoHeaders, body |-> "", msg |-> ""]

\* json.ts:58-76 (part_007:153-167) for the body string of `data`
JsonBuild(impl, data, msg, defined, init) ==
  LET status == IF init.status = NoStatus THEN 200 ELSE init.status
  IN IF (IF impl = "json.ts" THEN DestructureStatusText(init)
         ELSE DestructureInit(init))
       THEN [t |-> "throw", name |-> "TypeError", r |-> NoJsonResponse]
     ELSE IF ResponseThrows(status, defined)
       THEN [t |-> "throw", name |-> "TypeError", r |-> NoJsonResponse]
     ELSE [t |-> "resp", name |-> "",
           r |-> [status |-> status,
                  headers |-> JsonHeaders(defined, init.headers),
                  body |-> IF defined THEN data ELSE "",
                  msg |-> msg]]

\* no call of json
JsonIdle ==
  [pc |-> "idle", impl |-> "", data |-> "", data0 |-> "", init0 |-> <<>>,
   msg |-> "", defined |-> FALSE, init |-> <<>>, depth |-> 0,
   res |-> [t |-> "none", name |-> "", r |-> NoJsonResponse]]

\* ------------------------------------------------------------- memoize
\* the argument lists memoized functions are called with: (1), ("1"), (2)
MemoArgs == {"n1", "s1", "n2"}

\* memoize.ts:23-32 defaultOptions.hash: JSON.stringify(args, replacer) where
\* the replacer turns every value that is not an object into String(v)
Hash(arg) == IF arg = "n2" THEN "[\"2\"]" ELSE "[\"1\"]"
MemoIds == {Hash(a) : a \in MemoArgs}

\* the memoized functions: F = memoize(f), G = memoize(g), P = memoize(p),
\* where f and g return plain values and p returns a promise
Memoized == {"F", "G", "P"}
Wrapped(fn) == CASE fn = "F" -> "f" [] fn = "G" -> "g" [] OTHER -> "p"

\* the n-th result of the wrapped function w
MemoValue(w, n) == [by |-> w, n |-> n, promise |-> w = "p"]
NoMemoValue == [by |-> "", n |-> 0, promise |-> FALSE]

\* memoize.ts:22 `cache: new Map()` of defaultOptions, which line 75 hands
\* to every memoize() call that passes no cache of its own
MemoIdle ==
  [cache |-> [id \in MemoIds |-> [has |-> FALSE, v |-> NoMemoValue]],
   nInv |-> [w \in {"f", "g", "p"} |-> 0],
   pstate |-> <<>>,   \* the promises p returned: [st, id]
   log |-> <<>>]      \* calls, fulfilments and evictions, in order

\* variant: the lookup never finds an entry
MemoHasNever(c, id) == FALSE

\* memoize.ts:79 cache.has(id)
MemoHas(c, id) == c[id].has

\* ------------------------------------------------ createSingletonPromise
\* promises.ts:189 `let _promise`: undefined
NoPromise == 0

SingIdle ==
  [promise |-> NoPromise,  \* _promise: the number of the promise held
   pstate |-> <<>>,        \* the promises fn returned
   resets |-> <<>>,        \* reset() calls: [prev, st]
   log |-> <<>>]           \* wrapper and reset calls, in order

\* variant: the wrapper calls fn on every call
WrapperInvokesAlways(promise) == TRUE

\* promises.ts:192 `if (!_promise)`
WrapperInvokes(promise) == promise = NoPromise

\* ---------------------------------------------------- createPromiseLock
\* promises.ts:256 `const locks = []`
LockIdle ==
  [locks |-> <<>>,   \* the array: numbers of the task promises it holds
   tasks |-> <<>>,   \* the tasks started with run(): [st, run]
   waits |-> <<>>]   \* wait() calls: [snap, before, st]

\* variant: the oldest element is removed, whatever the value
RemoveFirst(array, value) == Tail(array)

\* collection.ts:534-544 remove(array, value): the first occurrence of value
\* is spliced out (the array is never empty when run() calls it)
Remove(array, value) ==
  LET at == {j \in 1..Len(array) : array[j] = value}
      index == IF at = {} THEN 0 ELSE CHOOSE j \in at : \A k \in at : j <= k
  IN IF index = 0 THEN array
     ELSE [j \in 1..(Len(array) - 1) |->
             IF j < index THEN array[j] ELSE array[j + 1]]

\* promises.ts:271-273 isWaiting()
IsWaiting(l) == Len(l.locks) > 0

\* ---------------------------------------------------- throttle, debounce
NoTimer == [id |-> 0, fn |-> "none", at |-> 0, arg |-> 0]

\* promises.ts:55-58 the closure of throttle(), before it is configured
TimerIdle ==
  [kind |-> "none", debounceMode |-> "false", noTrailing |-> FALSE,
   delay |-> 0,
   timeoutID |-> 0,      \* 0 is undefined
   lastExec |-> 0,
   pending |-> NoTimer,  \* the timer the runtime holds for this closure
   nIds |-> 0,
   now |-> 0,            \* milliseconds since the function was made
   calls |-> <<>>,       \* time of every call of the wrapper
   log |-> <<>>]         \* executions of callback: [t, arg]

\* promises.ts:47 `debounceMode = false`: the default replaces undefined
DebounceModeParam(x) == IF x = "undefined" THEN "false" ELSE x

\* promises.ts:153 `!!atBegin`
BangBang(atBegin) == IF atBegin = "true" THEN "true" ELSE "false"

\* promises.ts:73 Date.now(): the epoch is further back than any delay
DateNow(t) == t + MaxDelay + 1

\* promises.ts:97 clearTimeout(timeoutID)
ClearTimeout(t) ==
  IF t.timeoutID # 0 /\ t.pending.id = t.timeoutID THEN NoTimer ELSE t.pending

\* promises.ts:81-84 exec() of the call numbered arg
Exec(t, arg) ==
  [t EXCEPT !.lastExec = DateNow(t.now),
            !.log = Append(@, [t |-> t.now, arg |-> arg])]

\* variant: a call made while a timer is pending leaves the timer alone
WrapperKeepsTimer(t0, arg) ==
  LET t1 == IF t0.debounceMode = "true" /\ t0.timeoutID = 0
            THEN Exec(t0, arg) ELSE t0
  IN IF t1.noTrailing \/ t1.pending # NoTimer THEN t1
     ELSE [t1 EXCEPT
             !.nIds = @ + 1,
             !.timeoutID = t1.nIds + 1,
             !.pending =
               [id |-> t1.nIds + 1,
                fn |-> IF t1.debounceMode = "true" THEN "clear" ELSE "exec",
                at |-> t1.now + t1.delay,
                arg |-> arg]]

\* promises.ts:71-121 wrapper(...args), the call numbered arg
Wrapper(t0, arg) ==
  LET elapsed == DateNow(t0.now) - t0.lastExec
      t1 == IF t0.debounceMode = "true" /\ t0.timeoutID = 0
            THEN Exec(t0, arg) ELSE t0
      t2 == [t1 EXCEPT !.pending = ClearTimeout(t1)]
  IN IF t2.debounceMode = "undefined" /\ elapsed > t2.delay
     THEN Exec(t2, arg)
     ELSE IF ~t2.noTrailing
     THEN [t2 EXCEPT
             !.nIds = @ + 1,
             !.timeoutID = t2.nIds + 1,
             !.pending =
               [id |-> t2.nIds + 1,
                fn |-> IF t2.debounceMode = "true" THEN "clear" ELSE "exec",
                at |-> t2.now + (IF t2.debounceMode = "undefined"
                                 THEN t2.delay - elapsed ELSE t2.delay),
                arg |-> arg]]
     ELSE t2

\* ------------------------------------------------------------------ State
StateKeys == {"a", "b"}
StateValues == {"v1", "v2"}
NoEntry == "none"

\* a Map over the keys in use; NoEntry marks a key the Map does not hold
StateMaps == [StateKeys -> StateValues \cup {NoEntry}]
EmptyMap == [k \in StateKeys |-> NoEntry]

\* part_006:5-7 the module's __STATE__[__KEY__], a new Map
StateIdle ==
  [maps |-> <<EmptyMap>>,  \* every Map made so far
   global |-> 1,           \* the Map __STATE__[__KEY__] refers to
   insts |-> <<>>,         \* instances: [map, holds], map being its `$`
   nOps |-> 0]

\* part_006:148 this.$.has(key)
MapHas(map, key) == map[key] # NoEntry

\* part_006:116 this.$.get(key) ?? defaultValue, no defaultValue given
MapGet(map, key) == IF map[key] = NoEntry THEN "undefined" ELSE map[key]

\* part_006:262-264 this.$.size
MapSize(map) == Cardinality({k \in StateKeys : map[k] # NoEntry})

\* ----------------------------------------------------------------- Params
\* Strings are sequences of characters; a parameter is [k, v], both strings.
\* The characters in use are unreserved: trim() and decode() (part_018:
\* 192-193) leave them as they are.
Chars(str) == str
KeyA == <<"a">>
KeyB == <<"b">>
Entry(k, v) == [k |-> k, v |-> <<v>>]

\* the sources of params_test.ts:13-84, cut down: two query strings and two
\* plain objects, each with the parameters it defines
ParamSources ==
  {[type |-> "string", chars |-> <<"a", "=", "1">>,
    entries |-> <<Entry(KeyA, "1")>>],
   [type |-> "string", chars |-> <<"a", "=", "2", "&", "b", "=", "1">>,
    entries |-> <<Entry(KeyA, "2"), Entry(KeyB, "1")>>],
   [type |-> "object", chars |-> <<>>,
    entries |-> <<Entry(KeyA, "3")>>],
   [type |-> "object", chars |-> <<>>,
    entries |-> <<Entry(KeyA, "2"), Entry(KeyB, "3")>>]}

\* part_018:102-106 Params.RE, one RegExp object each, `params` with the g
\* flag: its lastIndex is 0 when the module is loaded
ParIdle ==
  [lastIndex |-> 0,
   params |-> <<>>,    \* the Params instance the last call returned
   sources |-> <<>>,   \* the arguments of the last parse call
   prev |-> <<>>,      \* the instance as it was before the last distinct()
   nParse |-> 0,
   nDistinct |-> 0]

\* the character classes of part_018:103
NameStops == {"&", ";", ",", "="}
ValueStops == {"&", ";", ","}

Least(set) == CHOOSE x \in set : \A y \in set : x <= y

\* the last position of the longest run from `from` free of `stops`
RunEnd(chars, from, stops) ==
  LET bad == {j \in from..Len(chars) : chars[j] \in stops}
  IN IF bad = {} THEN Len(chars) ELSE Least(bad) - 1

\* part_018:103 Params.RE.params.test(chars): the search starts at lastIndex
\* and leaves lastIndex at the end of the match, or at 0 if there is none
ParamsTest(chars, lastIndex) ==
  LET starts == {j \in (lastIndex + 1)..Len(chars) : chars[j] \notin NameStops}
  IN IF starts = {} THEN [ok |-> FALSE, lastIndex |-> 0]
     ELSE LET nameEnd == RunEnd(chars, Least(starts), NameStops)
              hasValue == /\ nameEnd + 2 <= Len(chars)
                          /\ chars[nameEnd + 1] = "="
                          /\ chars[nameEnd + 2] \notin ValueStops
          IN [ok |-> TRUE,
              lastIndex |-> IF hasValue
                            THEN RunEnd(chars, nameEnd + 2, ValueStops)
                            ELSE nameEnd]

\* String.prototype.split at the positions in cuts
RECURSIVE SplitAt(_, _)
SplitAt(chars, cuts) ==
  IF cuts = {} THEN <<chars>>
  ELSE LET c == Least(cuts)
       IN <<SubSeq(chars, 1, c - 1)>> \o
          SplitAt(SubSeq(chars, c + 1, Len(chars)),
                  {x - c : x \in cuts \ {c}})

\* part_018:104 Params.RE.groups
GroupCuts(chars) == {j \in DOMAIN chars : chars[j] \in {"&", ";"}}

\* part_018:105 Params.RE.values: `=` after a character of [^&;#=]
ValueCuts(chars) ==
  {j \in DOMAIN chars :
     /\ chars[j] = "="
     /\ j > 1
     /\ chars[j - 1] \notin {"&", ";", "#", "="}}

\* part_018:167-170 stringToEntries(value)
StringToEntries(chars) ==
  LET groups == SplitAt(chars, GroupCuts(chars))
  IN [g \in DOMAIN groups |-> SplitAt(groups[g], ValueCuts(groups[g]))]

\* part_018:191-194 `[key, val]` of an entry, val ?? ""
KeyVal(entry) ==
  [k |-> entry[1], v |-> IF Len(entry) >= 2 THEN entry[2] ELSE <<>>]

\* UTF-16 code units of the characters in use
Code(c) ==
  CASE c = "1" -> 49 [] c = "2" -> 50 [] c = "3" -> 51
    [] c = "a" -> 97 [] c = "b" -> 98 [] OTHER -> 0

RECURSIVE KeyLess(_, _)
KeyLess(x, y) ==
  IF y = <<>> THEN FALSE
  ELSE IF x = <<>> THEN TRUE
  ELSE IF Code(x[1]) # Code(y[1]) THEN Code(x[1]) < Code(y[1])
  ELSE KeyLess(Tail(x), Tail(y))

\* URLSearchParams.prototype.sort (part_018:198): stable, by key
RECURSIVE SortParams(_)
SortParams(params) ==
  IF params = <<>> THEN <<>>
  ELSE LET n == Len(params)
           front == SortParams(SubSeq(params, 1, n - 1))
           keep == {j \in DOMAIN front : ~KeyLess(params[n].k, front[j].k)}
           at == Cardinality(keep)
       IN SubSeq(front, 1, at) \o <<params[n]>> \o SubSeq(front, at + 1, n - 1)

\* part_018:129-137 Params.validate(value)
Validate(value, lastIndex) ==
  IF value.type = "string" THEN ParamsTest(value.chars, lastIndex)
  ELSE [ok |-> TRUE, lastIndex |-> lastIndex]

\* part_018:177-195 one turn of the loop of parse; acc is [lastIndex, params]
ParseSource(acc, value) ==
  LET valid == Validate(value, acc.lastIndex)
      again == IF valid.ok /\ value.type = "string"
               THEN ParamsTest(value.chars, valid.lastIndex)
               ELSE [ok |-> FALSE, lastIndex |-> valid.lastIndex]
      entries == IF ~valid.ok THEN <<>>
                 ELSE IF again.ok
                 THEN LET raw == StringToEntries(value.chars)
                      IN [j \in DOMAIN raw |-> KeyVal(raw[j])]
                 ELSE IF value.type = "object" THEN value.entries
                 ELSE <<>>
  IN [lastIndex |-> again.lastIndex, params |-> acc.params \o entries]

RECURSIVE ParseSources(_, _)
ParseSources(acc, values) ==
  IF values = <<>> THEN acc
  ELSE ParseSources(ParseSource(acc, Head(values)), Tail(values))

\* part_018:164-200 Params.parse(...values); defaultParams is {}
Parse(values, lastIndex) ==
  LET done == ParseSources([lastIndex |-> lastIndex, params |-> <<>>], values)
  IN [lastIndex |-> done.lastIndex, params |-> SortParams(done.params)]

\* part_018:80-85 params.getAll(name)
GetAll(params, name) ==
  LET sel == SelectSeq(params, LAMBDA e : e.k = name)
  IN [j \in DOMAIN sel |-> sel[j].v]

NoParam == <<"undefined">>

\* part_018:89-94 params.get(name): getAll(name).pop()
Get(params, name) ==
  LET all == GetAll(params, name)
  IN IF all = <<>> THEN NoParam ELSE all[Len(all)]

Keys(params) == {params[j].k : j \in DOMAIN params}

\* URLSearchParams.prototype.set: the first parameter of that name gets the
\* value, the others of that name are removed
SetParam(params, name, value) ==
  LET at == {j \in DOMAIN params : params[j].k = name}
      first == Least(at)
      kept == SelectSeq([j \in DOMAIN params |-> [e |-> params[j], j |-> j]],
                        LAMBDA x : x.e.k # name \/ x.j = first)
  IN IF at = {} THEN Append(params, [k |-> name, v |-> value])
     ELSE [j \in DOMAIN kept |->
             IF kept[j].e.k = name THEN [k |-> name, v |-> value]
             ELSE kept[j].e]

\* variant: every key keeps the first of its values
RECURSIVE DistinctKeepsFirst(_, _)
DistinctKeepsFirst(params, keys) ==
  IF keys = {} THEN params
  ELSE LET key == CHOOSE k \in keys : TRUE
       IN DistinctKeepsFirst(SetParam(params, key, GetAll(params, key)[1]),
                             keys \ {key})

\* part_018:50-56 distinct(), over the keys the loop has still to visit
RECURSIVE Distinct(_, _)
Distinct(params, keys) ==
  IF keys = {} THEN params
  ELSE LET key == CHOOSE k \in keys : TRUE
           last == Get(params, key)
           all == GetAll(params, key)
       IN Distinct(SetParam(params, key,
                            IF all = <<>> THEN last ELSE all[Len(all)]),
                   keys \ {key})

UtilInit ==
  /\ memo = MemoIdle
  /\ sing = SingIdle
  /\ lock = LockIdle
  /\ tmr = TimerIdle
  /\ sta = StateIdle
  /\ par = ParIdle

Init ==
  /\ HttpInit
  /\ CacheInit
  /\ val = ValIdle
  /\ jsn = JsonIdle
  /\ UtilInit

\* ------------------------------------------------------- handleRequest
Done(s, r) ==
  [s EXCEPT !.pc = "done", !.res = [t |-> "resp", r |-> r, name |-> ""]]

Rejected(s, name) ==
  [s EXCEPT !.pc = "done",
            !.res = [t |-> "rejected", r |-> NoResponse, name |-> name]]

\* the outer catch (lines 484-487): return json({ error }, { status: 500 })
OuterCatch(s, msg) ==
  LET j == Json(msg, Init500)
      s1 == [s EXCEPT !.json = @ + 1]
  IN IF j.t = "throw" THEN Rejected(s1, j.name) ELSE Done(s1, j.r)

\* lines 470-472: response is still undefined, call routes["404"]
CallNotFound(s) ==
  [s EXCEPT !.pc = "h_nf",
            !.calls = Append(@, Call("table404", 0, EmptyParams,
                                    Lookup(s.tbl, Key404)))]

\* variant: the catch of line 451 does not single out NotFound
AfterHandlerNoFallThrough(s, o) ==
  CASE o.t = "throw" ->
         LET j == Json(o.msg, Init500)
             s1 == [s EXCEPT !.thrown = o.name, !.thrownMsg = o.msg,
                             !.json = @ + 1]
         IN IF j.t = "throw" THEN OuterCatch(s1, j.msg) ELSE Done(s1, j.r)
    [] o.t = "view" -> Done(s, Jsx)
    [] OTHER -> Done(s, o.r)

\* lines 450-462 once the route handler's promise has settled with o
AfterHandler(s, o) ==
  CASE o.t = "throw" /\ o.name = "NotFound" ->
         CallNotFound([s EXCEPT !.thrown = o.name, !.thrownMsg = o.msg])
    [] o.t = "throw" /\ o.name # "NotFound" ->
         LET j == Json(o.msg, Init500)
             s1 == [s EXCEPT !.thrown = o.name, !.thrownMsg = o.msg,
                             !.json = @ + 1]
         IN IF j.t = "throw" THEN OuterCatch(s1, j.msg) ELSE Done(s1, j.r)
    [] o.t = "view" -> Done(s, Jsx)
    [] OTHER -> Done(s, o.r)

\* variant: the loop keeps going and the last matching route wins
LastMatch(tbl, pathname) ==
  LET ms == {j \in 1..Len(tbl) : PatternTest(tbl[j].key, pathname)}
  IN IF ms = {} THEN 0 ELSE CHOOSE j \in ms : \A k \in ms : k <= j

\* index of the route the loop of lines 443-464 stops at (0: none matches)
FirstMatch(tbl, pathname) ==
  LET ms == {j \in 1..Len(tbl) : PatternTest(tbl[j].key, pathname)}
  IN IF ms = {} THEN 0 ELSE CHOOSE j \in ms : \A k \in ms : j <= k

\* serveStatic lines 543-549: params?.filename
StaticFilename(params) ==
  IF "filename" \in DOMAIN params THEN params["filename"] ELSE <<>>

\* variant: the handler is called without the groups of the match
DispatchNoParams(s) ==
  LET j == FirstMatch(s.tbl, s.path)
      h == s.tbl[j].h
      s1 == [s EXCEPT !.calls = Append(@, Call("route", j, EmptyParams, h))]
  IN IF j = 0 THEN CallNotFound(s)
     ELSE IF h.kind = "static"
       THEN [s1 EXCEPT !.pc = IF h.cache THEN "s_match" ELSE "s_read"]
     ELSE [s1 EXCEPT !.pc = "h_handler"]

\* lines 442-464 and 470-472 on a cache miss: find the route, call its
\* handler (up to the handler's first await)
Dispatch(s) ==
  LET j == FirstMatch(s.tbl, s.path)
      h == s.tbl[j].h
      params == PatternExec(s.tbl[j].key, s.path).groups
      s1 == [s EXCEPT !.calls = Append(@, Call("route", j, params, h))]
  IN IF j = 0 THEN CallNotFound(s)
     ELSE IF h.kind = "static"
       THEN [s1 EXCEPT !.pc = IF h.cache THEN "s_match" ELSE "s_read"]
     ELSE [s1 EXCEPT !.pc = "h_handler"]

\* what a call of a handler that is user code can end with
Outcomes(h) ==
  IF h.kind = "default404"
    THEN {Return(MkResponse(404, -1, 1, h.id))}
    ELSE {Return(MkResponse(IF h.id = "nf" THEN 404 ELSE 200, -1, 1, h.id)),
          ReturnView, Throw("NotFound", "no such thing"),
          Throw("Error", "boom")}

\* variant: the cached response is returned unmarked
MarkCacheHitDropped(r) == r

\* line 466: response.headers.set("x-function-cache-hit", "true")
MarkCacheHit(r) == [r EXCEPT !.hit = TRUE]

\* handleRequest is called: the URL is parsed, the cache lookup is issued
HandleRequest(i, pathname, tbl) ==
  /\ reqs[i].pc = "idle"
  /\ nReq < MaxRequests
  /\ nReq' = nReq + 1
  /\ reqs' = [reqs EXCEPT ![i] =
                [Idle EXCEPT !.pc = "h_match", !.path = pathname, !.tbl = tbl]]
  /\ UNCHANGED <<cache, routes, nServe, nPut, libVars>>

\* `await globalCache.match(request)` resolves (line 440)
H_Match(i) ==
  LET s == reqs[i]
      m == CacheMatch(cache, s.path)
      s1 == [s EXCEPT !.held =
               IF CacheFind(cache, s.path) = {} THEN NoResponse
               ELSE cache[CHOOSE j \in CacheFind(cache, s.path) : TRUE].r]
  IN /\ s.pc = "h_match"
     /\ reqs' = [reqs EXCEPT ![i] =
                   IF m.found
                     THEN Done([s1 EXCEPT !.hitAtMatch = TRUE],
                               MarkCacheHit(m.r))
                     ELSE Dispatch(s1)]
     /\ UNCHANGED <<cache, routes, nReq, nServe, nPut, libVars>>

\* the promise of a user route handler settles (line 450)
H_Handler(i) ==
  LET s == reqs[i]
      h == s.calls[Len(s.calls)].h
  IN /\ s.pc = "h_handler"
     /\ \E o \in Outcomes(h) :
          reqs' = [reqs EXCEPT ![i] = AfterHandler(s, o)]
     /\ UNCHANGED <<cache, routes, nReq, nServe, nPut, libVars>>

\* the promise of the table's 404 handler settles (line 471)
H_NotFound(i) ==
  LET s == reqs[i]
      h == s.calls[Len(s.calls)].h
  IN /\ s.pc = "h_nf"
     /\ \E o \in Outcomes(h) :
          reqs' = [reqs EXCEPT ![i] =
                     CASE o.t = "resp" -> Done(s, o.r)
                       \* line 477: response.headers is undefined
                       [] o.t = "view" ->
                            OuterCatch(s, "Cannot read properties of undefined")
                       [] OTHER -> OuterCatch(s, o.msg)]
     /\ UNCHANGED <<cache, routes, nReq, nServe, nPut, libVars>>

\* ---------------------------------------------------------- serveStatic
\* line 578: return routes[404](request, connInfo, {}) with the module-level
\* `routes`
StaticCallNotFound(s, rts) ==
  [s EXCEPT !.pc = "s_nf",
            !.calls = Append(@, Call("module404", 0, EmptyParams,
                                    Lookup(rts, Key404)))]

\* `await globalCache.match(request)` of serveStatic resolves (line 554)
S_Match(i) ==
  LET s == reqs[i]
      m == CacheMatch(cache, s.path)
      s1 == [s EXCEPT !.sHit = TRUE]
  IN /\ s.pc = "s_match"
     /\ reqs' = [reqs EXCEPT ![i] =
                   IF ~m.found THEN [s EXCEPT !.pc = "s_read"]
                   ELSE IF m.r.status = 404 THEN StaticCallNotFound(s1, routes)
                   ELSE AfterHandler(s1, Return(m.r))]
     /\ UNCHANGED <<cache, routes, nReq, nServe, nPut, libVars>>

\* `await Deno.readFile(fileUrl)` settles (line 558); the handler runs on to
\* its return (the awaits of lines 565 and 572 are passed within this step)
S_Read(i) ==
  LET s == reqs[i]
      c == s.calls[Len(s.calls)]
  IN /\ s.pc = "s_read"
     /\ \E iv \in InterveneOutcomes :
          LET a == StaticAfterRead(c.h, s.path, StaticFilename(c.params),
                                   cache, iv)
              s1 == [s EXCEPT !.built = a.built, !.stored = a.stored,
                              !.sresp = a.sresp, !.readErr = a.readErr]
          IN /\ reqs' = [reqs EXCEPT ![i] =
                           IF a.out.t = "call404"
                             THEN StaticCallNotFound(s1, routes)
                             ELSE AfterHandler(s1, a.out)]
             /\ cache' = a.cache
     /\ UNCHANGED <<routes, nReq, nServe, nPut, libVars>>

\* the promise of the 404 handler serveStatic delegated to settles
S_NotFound(i) ==
  LET s == reqs[i]
      h == s.calls[Len(s.calls)].h
  IN /\ s.pc = "s_nf"
     /\ \E o \in Outcomes(h) :
          reqs' = [reqs EXCEPT ![i] = AfterHandler(s, o)]
     /\ UNCHANGED <<cache, routes, nReq, nServe, nPut, libVars>>

\* the caller has taken the result of handleRequest
Finish(i) ==
  /\ reqs[i].pc = "done"
  /\ reqs' = [reqs EXCEPT ![i] = Idle]
  /\ UNCHANGED <<cache, routes, nReq, nServe, nPut, libVars>>

\* ------------------------------------------------------------------ serve
\* serve(userRoutes): routes = { ...routes, ...userRoutes }
Serve(userRoutes) ==
  /\ nServe < MaxServes
  /\ nServe' = nServe + 1
  /\ routes' = Spread(routes, userRoutes)
  /\ served' = userRoutes
  /\ UNCHANGED <<cache, reqs, nReq, nPut, cacheVars, val, jsn, utilVars>>

\* requests and responses users of the exported globalCache put
PutKeys == {<<"big">>}
PutResponses == {MkResponse(200, -1, 1, "api"), MkResponse(404, -1, 1, "api")}

\* globalCache.put(request, response) called by a user of cache.ts
ApiPut(key, r) ==
  /\ nPut < MaxPuts
  /\ nPut' = nPut + 1
  /\ cache' = CachePut(cache, key, r, "api", GlobalCapacity)
  /\ UNCHANGED <<routes, reqs, nReq, nServe, libVars>>

\* the tables a request can be dispatched with: one passed to handleRequest
\* directly, or the module-level table once serve() has been called
Tables == DirectTables \cup (IF nServe > 0 THEN {routes} ELSE {})

Next ==
  \/ \E i \in Slots, p \in Paths, t \in Tables : HandleRequest(i, p, t)
  \/ \E i \in Slots : H_Match(i)
  \/ \E i \in Slots : H_Handler(i)
  \/ \E i \in Slots : H_NotFound(i)
  \/ \E i \in Slots : S_Match(i)
  \/ \E i \in Slots : S_Read(i)
  \/ \E i \in Slots : S_NotFound(i)
  \/ \E i \in Slots : Finish(i)
  \/ \E u \in UserTables : Serve(u)
  \/ \E k \in PutKeys, r \in PutResponses : ApiPut(k, r)

Spec == Init /\ [][Next]_vars

TypeOK ==
  /\ nReq \in 0..MaxRequests
  /\ \A i \in Slots : reqs[i].pc \in
       {"idle", "h_match", "h_handler", "h_nf", "s_match", "s_read", "s_nf", "done"}

\* ------------------------------------------------- the cache.ts workload
httpVars == <<routes, reqs, nReq, nServe, nPut, served, val, jsn, utilVars>>

\* cache.ts:11-16 createCache(capacity, id)
CreateCache(capacity, id) ==
  /\ nCreate < MaxCreates
  /\ nCreate' = nCreate + 1
  /\ LET cur == CacheRead(registry, id)
         fresh == Len(insts) + 1
         inst0 == NullishAssign(cur, fresh)
     IN /\ IF inst0 = cur
           THEN UNCHANGED <<registry, insts>>
           ELSE /\ registry' = [registry EXCEPT ![id] = inst0]
                /\ insts' = Append(insts, InstanceCapacity(capacity))
        /\ returned' = returned \cup
             {[id |-> id, capacity |-> capacity, inst |-> inst0]}
  /\ UNCHANGED <<cache, nFresh, httpVars>>

\* the request for /a/a/.../a with n segments: n distinct requests have
\* n distinct keys
KeyOf(n) == [j \in 1..n |-> "a"]

\* globalCache.put() of a request that was not put before
PutFresh ==
  /\ nFresh < CACHE_CAPACITY + MaxOverflow
  /\ nFresh' = nFresh + 1
  /\ cache' = CachePut(cache, KeyOf(nFresh + 1), MkResponse(200, -1, 1, "api"),
                       "api", GlobalCapacity)
  /\ UNCHANGED <<registry, insts, returned, nCreate, httpVars>>

\* globalCache.put() of the request whose entry is the oldest one held
PutAgain ==
  /\ cache # <<>>
  /\ nPut < MaxPuts
  /\ nPut' = nPut + 1
  /\ cache' = CachePut(cache, Head(cache).key, MkResponse(200, -1, 1, "api"),
                       "api", GlobalCapacity)
  /\ UNCHANGED <<cacheVars, routes, reqs, nReq, nServe, served, val, jsn, utilVars>>

NextCache ==
  \/ \E c \in Capacities, id \in CacheIds : CreateCache(c, id)
  \/ PutFresh
  \/ PutAgain

SpecCache == Init /\ [][NextCache]_vars

\* ------------------------------------------------- sequences of serve()
\* {}: a caller that passes no route at all
T5 == <<>>
ServeTables == {T1, T2, T3, T4, T5}

\* serve(userRoutes) called again and again, with no request in flight
ServeCall(userRoutes) ==
  /\ nServe < MaxServeCalls
  /\ nServe' = nServe + 1
  /\ routes' = Spread(routes, userRoutes)
  /\ served' = userRoutes
  /\ UNCHANGED <<cache, reqs, nReq, nPut, cacheVars, val, jsn, utilVars>>

NextServe == \E u \in ServeTables : ServeCall(u)

SpecServe == Init /\ [][NextServe]_vars

\* ------------------------------------------------------- validateRequest
\* Status.MethodNotAllowed, Status.BadRequest
MethodNotAllowed == 405
BadRequest == 400

\* a RequestTerms object literal: own method keys, each with the names it
\* requires
Term(params, headers, body) ==
  [params |-> params, headers |-> headers, body |-> body]
\* { GET: { params: ["id"], headers: ["X-Token"] },
\*   POST: { headers: ["X-Token"], body: ["name"] } }
TermsA ==
  [m \in {"GET", "POST"} |->
     IF m = "GET" THEN Term(<<"id">>, <<"X-Token">>, <<>>)
     ELSE Term(<<>>, <<"X-Token">>, <<"name">>)]
\* { POST: { params: ["id", "page"], body: ["name", "age"] } }
TermsB ==
  [m \in {"POST"} |-> Term(<<"id", "page">>, <<>>, <<"name", "age">>)]

\* a member of Object.prototype: a function, truthy, with no `params`,
\* `headers` or `body`
InheritedFunction == Term(<<>>, <<>>, <<>>)

\* terms[request.method]: an own key, else a member every object literal
\* inherits, else undefined
TermsRead(terms, method) ==
  IF method \in DOMAIN terms THEN [defined |-> TRUE, v |-> terms[method]]
  ELSE IF method = "toString" THEN [defined |-> TRUE, v |-> InheritedFunction]
  ELSE [defined |-> FALSE, v |-> InheritedFunction]

\* header.toLowerCase()
ToLowerCase(str) == IF str = "X-Token" THEN "x-token" ELSE str

\* the first element of seq that is not in `have` (0: none), as the
\* for...of loops with an early return find it
FirstMissing(seq, have) ==
  LET ms == {j \in 1..Len(seq) : seq[j] \notin have}
  IN IF ms = {} THEN 0 ELSE CHOOSE j \in ms : \A k \in ms : j <= k

\* the bodies a request can carry: none, text that is not JSON, the JSON
\* value null, or a JSON object
BodyKinds == {"none", "text", "null", "o", "o_name", "o_name_age"}
\* Object.keys(requestBody)
BodyKeys(b) ==
  CASE b = "o_name" -> {"name"}
    [] b = "o_name_age" -> {"name", "age"}
    [] OTHER -> {}

ValError(v, status, msg) ==
  [v EXCEPT !.pc = "done",
            !.res = [t |-> "value", error |-> TRUE, status |-> status,
                     msg |-> msg, body |-> FALSE, keys |-> {}, name |-> ""]]
ValBody(v, keys) ==
  [v EXCEPT !.pc = "done",
            !.res = [t |-> "value", error |-> FALSE, status |-> 0,
                     msg |-> <<>>, body |-> TRUE, keys |-> keys, name |-> ""]]
ValRejected(v, name) ==
  [v EXCEPT !.pc = "done",
            !.res = [t |-> "rejected", error |-> FALSE, status |-> 0,
                     msg |-> <<>>, body |-> FALSE, keys |-> {}, name |-> name]]

\* lines 656-714: the method, params and headers checks, up to the
\* `await request.json()` of line 715
ValidateChecks(v) ==
  LET t == TermsRead(v.terms, v.method)
      p == FirstMissing(t.v.params, v.params)
      h == FirstMissing([j \in 1..Len(t.v.headers) |->
                           ToLowerCase(t.v.headers[j])], v.headers)
  IN IF ~t.defined
       THEN ValError(v, MethodNotAllowed,
                     <<"Method", v.method, "is not allowed for the URL">>)
     ELSE IF p # 0
       THEN ValError(v, BadRequest,
                     <<"param", t.v.params[p], "is required to process the request">>)
     ELSE IF h # 0
       THEN ValError(v, BadRequest,
                     <<"header", t.v.headers[h], "not available">>)
     ELSE IF Len(t.v.body) > 0
       THEN [v EXCEPT !.pc = "body", !.bodyRead = TRUE]
     ELSE ValBody(v, {})

\* lines 715-733: request.json() has settled
ValidateBody(v) ==
  LET t == TermsRead(v.terms, v.method)
      k == FirstMissing(t.v.body, BodyKeys(v.body))
  IN IF v.body \in {"none", "text"}
       THEN ValRejected(v, "SyntaxError")
     \* Object.keys(null)
     ELSE IF v.body = "null"
       THEN ValRejected(v, "TypeError")
     ELSE IF k # 0
       THEN ValError(v, BadRequest,
                     <<"field", t.v.body[k], "is not available in the body">>)
     ELSE ValBody(v, BodyKeys(v.body))

\* the requests and terms validateRequest is called with; a GET request
\* carries no body
ValInputs ==
  {[ValIdle EXCEPT !.pc = "start", !.method = m, !.params = ps,
                   !.headers = hs, !.body = b, !.terms = t] :
     m \in {"GET", "POST", "DELETE", "toString"},
     ps \in SUBSET {"id", "page"}, hs \in SUBSET {"x-token"},
     b \in BodyKinds, t \in {TermsA, TermsB}}

InitValidate ==
  /\ HttpInit
  /\ CacheInit
  /\ val \in {v \in ValInputs : v.method = "GET" => v.body = "none"}
  /\ jsn = JsonIdle
  /\ UtilInit

V_Checks ==
  /\ val.pc = "start"
  /\ val' = ValidateChecks(val)
  /\ UNCHANGED <<cache, routes, reqs, nReq, nServe, nPut, served, cacheVars, jsn, utilVars>>

V_Body ==
  /\ val.pc = "body"
  /\ val' = ValidateBody(val)
  /\ UNCHANGED <<cache, routes, reqs, nReq, nServe, nPut, served, cacheVars, jsn, utilVars>>

NextValidate ==
  \/ V_Checks
  \/ V_Body

SpecValidate == InitValidate /\ [][NextValidate]_vars

\* ------------------------------------------------------- calls of json
\* json is called with data and init, in the version of json.ts or in the
\* version of part_007:139-168
JsonInputs ==
  {[JsonIdle EXCEPT !.pc = "stringify", !.impl = v, !.data = d, !.data0 = d,
                    !.init = i, !.init0 = i] :
     v \in {"json.ts", "part_007"},
     d \in {"obj", "cyclic", "bigint", "undefined"}, i \in JsonInits}

InitJson ==
  /\ HttpInit
  /\ CacheInit
  /\ val = ValIdle
  /\ jsn \in JsonInputs
  /\ UtilInit

\* json.ts:50-56: the try, and in the catch the self-call with the payload
\* { error: message }
J_Stringify ==
  /\ jsn.pc = "stringify"
  /\ LET st == JsonStringify(jsn.data)
     IN jsn' = IF st.threw
                 THEN [jsn EXCEPT !.data = "error", !.msg = st.msg,
                                  !.init = ErrorInit(jsn.init),
                                  !.depth = @ + 1]
                 ELSE [jsn EXCEPT !.pc = "build", !.defined = st.defined]
  /\ UNCHANGED <<cache, routes, reqs, nReq, nServe, nPut, served, cacheVars, val, utilVars>>

\* json.ts:58-76: the headers, the status text and the Response
J_Build ==
  /\ jsn.pc = "build"
  /\ jsn' = [jsn EXCEPT !.pc = "done",
                        !.res = JsonBuild(jsn.impl, jsn.data, jsn.msg,
                                          jsn.defined, jsn.init)]
  /\ UNCHANGED <<cache, routes, reqs, nReq, nServe, nPut, served, cacheVars, val, utilVars>>

NextJson ==
  \/ J_Stringify
  \/ J_Build

SpecJson == InitJson /\ [][NextJson]_vars

\* ------------------------------------------------ memoized functions
\* everything outside the utility modules
coreVars == <<cache, routes, reqs, nReq, nServe, nPut, served, cacheVars,
              val, jsn>>

MemoEvent(ev, fn, arg, id, invoked, threw, v) ==
  [ev |-> ev, fn |-> fn, arg |-> arg, id |-> id, invoked |-> invoked,
   threw |-> threw, v |-> v]

MemoCalls(m) == Len(SelectSeq(m.log, LAMBDA e : e.ev = "call"))

\* memoize.ts:77-91: one call of the memoized function fn; `out` is what
\* the wrapped function does when it is invoked
MemoApply(m, fn, arg, out) ==
  LET id == Hash(arg)
      w == Wrapped(fn)
      n == m.nInv[w] + 1
      v == MemoValue(w, n)
      m1 == [m EXCEPT !.nInv[w] = n]
  IN IF MemoHas(m.cache, id)
       THEN [m EXCEPT !.log = Append(@, MemoEvent("call", fn, arg, id, FALSE,
                                                  FALSE, m.cache[id].v))]
     ELSE IF out = "throw" /\ w # "p"
       THEN [m1 EXCEPT !.log = Append(@, MemoEvent("call", fn, arg, id, TRUE,
                                                   TRUE, NoMemoValue))]
     ELSE [m1 EXCEPT !.cache[id] = [has |-> TRUE, v |-> v],
                     !.pstate = IF w = "p"
                                  THEN Append(@, [st |-> "pending", id |-> id])
                                  ELSE @,
                     !.log = Append(@, MemoEvent("call", fn, arg, id, TRUE,
                                                 FALSE, v))]

M_Call(fn, arg, out) ==
  /\ MemoCalls(memo) < MaxMemoCalls
  /\ memo' = MemoApply(memo, fn, arg, out)
  /\ UNCHANGED <<coreVars, sing, lock, tmr, sta, par>>

\* the k-th promise of p is fulfilled
M_Fulfil(k) ==
  /\ k \in DOMAIN memo.pstate
  /\ memo.pstate[k].st = "pending"
  /\ memo' = [memo EXCEPT
        !.pstate[k].st = "fulfilled",
        !.log = Append(@, MemoEvent("fulfil", "P", "", memo.pstate[k].id, FALSE,
                                    FALSE, MemoValue("p", k)))]
  /\ UNCHANGED <<coreVars, sing, lock, tmr, sta, par>>

\* the k-th promise of p is rejected: the handler of lines 84-87 deletes
\* the entry and rethrows, which rejects the promise the callers hold
M_Reject(k) ==
  /\ k \in DOMAIN memo.pstate
  /\ memo.pstate[k].st = "pending"
  /\ memo' = [memo EXCEPT
        !.pstate[k].st = "rejected",
        !.cache[memo.pstate[k].id] = [has |-> FALSE, v |-> NoMemoValue],
        !.log = Append(@, MemoEvent("evict", "P", "", memo.pstate[k].id, FALSE,
                                    FALSE, MemoValue("p", k)))]
  /\ UNCHANGED <<coreVars, sing, lock, tmr, sta, par>>

NextMemo ==
  \/ \E fn \in Memoized, a \in MemoArgs, out \in {"return", "throw"} :
       M_Call(fn, a, out)
  \/ \E k \in 1..MaxMemoCalls : M_Fulfil(k)
  \/ \E k \in 1..MaxMemoCalls : M_Reject(k)

SpecMemo == Init /\ [][NextMemo]_vars

\* ------------------------------------------------- singleton promises
SingEvent(ev, q, invoked) == [ev |-> ev, p |-> q, invoked |-> invoked]

\* promises.ts:191-196 wrapper(): fn is a function that returns a promise
SG_Call ==
  /\ Len(sing.log) < MaxSingCalls
  /\ LET inv == WrapperInvokes(sing.promise)
         q == IF inv THEN Len(sing.pstate) + 1 ELSE sing.promise
     IN sing' = [sing EXCEPT
          !.promise = q,
          !.pstate = IF inv THEN Append(@, "pending") ELSE @,
          !.log = Append(@, SingEvent("call", q, inv))]
  /\ UNCHANGED <<coreVars, memo, lock, tmr, sta, par>>

\* promises.ts:197-201 wrapper.reset() up to its `await _prev`
SG_Reset ==
  /\ Len(sing.log) < MaxSingCalls
  /\ sing' = [sing EXCEPT
        !.promise = NoPromise,
        !.resets = Append(@, [prev |-> sing.promise, st |-> "pending"]),
        !.log = Append(@, SingEvent("reset", sing.promise, FALSE))]
  /\ UNCHANGED <<coreVars, memo, lock, tmr, sta, par>>

\* a promise fn returned settles
SG_Settle(k, how) ==
  /\ k \in DOMAIN sing.pstate
  /\ sing.pstate[k] = "pending"
  /\ sing' = [sing EXCEPT !.pstate[k] = how]
  /\ UNCHANGED <<coreVars, memo, lock, tmr, sta, par>>

\* promises.ts:201-203: reset() goes on after `await _prev`, or straight
\* to its end when there was no promise
SG_ResetDone(n) ==
  /\ n \in DOMAIN sing.resets
  /\ sing.resets[n].st = "pending"
  /\ LET prev == sing.resets[n].prev
     IN /\ prev # NoPromise => sing.pstate[prev] # "pending"
        /\ sing' = [sing EXCEPT !.resets[n].st =
              IF prev # NoPromise /\ sing.pstate[prev] = "rejected"
                THEN "rejected" ELSE "resolved"]
  /\ UNCHANGED <<coreVars, memo, lock, tmr, sta, par>>

NextSing ==
  \/ SG_Call
  \/ SG_Reset
  \/ \E k \in 1..MaxSingCalls, how \in {"fulfilled", "rejected"} : SG_Settle(k, how)
  \/ \E n \in 1..MaxSingCalls : SG_ResetDone(n)

SpecSing == Init /\ [][NextSing]_vars

\* ------------------------------------------------------- promise locks
\* promises.ts:259-262 run(fn) up to its `await p`
L_Run ==
  /\ Len(lock.tasks) + Len(lock.waits) < MaxLockCalls
  /\ lock' = [lock EXCEPT
        !.tasks = Append(@, [st |-> "pending", run |-> "awaiting"]),
        !.locks = Append(@, Len(lock.tasks) + 1)]
  /\ UNCHANGED <<coreVars, memo, sing, tmr, sta, par>>

\* the promise of a task settles
L_Settle(k, how) ==
  /\ k \in DOMAIN lock.tasks
  /\ lock.tasks[k].st = "pending"
  /\ lock' = [lock EXCEPT !.tasks[k].st = how]
  /\ UNCHANGED <<coreVars, memo, sing, tmr, sta, par>>

\* promises.ts:263-266: run() goes on after `await p`, through its finally
L_Finally(k) ==
  /\ k \in DOMAIN lock.tasks
  /\ lock.tasks[k].st # "pending"
  /\ lock.tasks[k].run = "awaiting"
  /\ lock' = [lock EXCEPT !.tasks[k].run = "done",
                          !.locks = Remove(@, k)]
  /\ UNCHANGED <<coreVars, memo, sing, tmr, sta, par>>

\* promises.ts:268-269 wait(): Promise.allSettled reads the array now
L_Wait ==
  /\ Len(lock.tasks) + Len(lock.waits) < MaxLockCalls
  /\ lock' = [lock EXCEPT !.waits =
        Append(@, [snap |-> {lock.locks[j] : j \in 1..Len(lock.locks)},
                   before |-> DOMAIN lock.tasks, st |-> "pending"])]
  /\ UNCHANGED <<coreVars, memo, sing, tmr, sta, par>>

\* the promise of Promise.allSettled is fulfilled and wait() returns
L_WaitDone(n) ==
  /\ n \in DOMAIN lock.waits
  /\ lock.waits[n].st = "pending"
  /\ \A k \in lock.waits[n].snap : lock.tasks[k].st # "pending"
  /\ lock' = [lock EXCEPT !.waits[n].st = "resolved"]
  /\ UNCHANGED <<coreVars, memo, sing, tmr, sta, par>>

NextLock ==
  \/ L_Run
  \/ \E k \in 1..MaxLockCalls, how \in {"fulfilled", "rejected"} : L_Settle(k, how)
  \/ \E k \in 1..MaxLockCalls : L_Finally(k)
  \/ L_Wait
  \/ \E n \in 1..MaxLockCalls : L_WaitDone(n)

SpecLock == Init /\ [][NextLock]_vars

\* ------------------------------------------------- throttle, debounce
\* promises.ts:44-49 throttle(callback, delay, debounceMode, noTrailing)
T_Throttle(delay, debounceMode, noTrailing) ==
  /\ tmr.kind = "none"
  /\ tmr' = [tmr EXCEPT !.kind = "throttle", !.delay = delay,
                        !.debounceMode = DebounceModeParam(debounceMode),
                        !.noTrailing = noTrailing]
  /\ UNCHANGED <<coreVars, memo, sing, lock, sta, par>>

\* promises.ts:146-154 debounce(callback, delay, atBegin)
T_Debounce(delay, atBegin) ==
  /\ tmr.kind = "none"
  /\ tmr' = [tmr EXCEPT !.kind = "debounce", !.delay = delay,
                        !.debounceMode = DebounceModeParam(BangBang(atBegin)),
                        !.noTrailing = FALSE]
  /\ UNCHANGED <<coreVars, memo, sing, lock, sta, par>>

TimerDue == tmr.pending.fn # "none" /\ tmr.pending.at <= tmr.now

\* a call of the throttled or debounced function
T_Call ==
  /\ tmr.kind # "none"
  /\ ~TimerDue
  /\ Len(tmr.calls) < MaxTimerCalls
  /\ tmr' = [Wrapper(tmr, Len(tmr.calls) + 1) EXCEPT
               !.calls = Append(tmr.calls, tmr.now)]
  /\ UNCHANGED <<coreVars, memo, sing, lock, sta, par>>

\* the runtime runs the timer: promises.ts:89-91 clear() or 81-84 exec()
T_Fire ==
  /\ TimerDue
  /\ tmr' = IF tmr.pending.fn = "clear"
            THEN [tmr EXCEPT !.timeoutID = 0, !.pending = NoTimer]
            ELSE [Exec(tmr, tmr.pending.arg) EXCEPT !.pending = NoTimer]
  /\ UNCHANGED <<coreVars, memo, sing, lock, sta, par>>

\* a millisecond passes; a timer runs in the millisecond it is set for
T_Tick ==
  /\ tmr.kind # "none"
  /\ ~TimerDue
  /\ tmr.now < MaxTime
  /\ tmr' = [tmr EXCEPT !.now = @ + 1]
  /\ UNCHANGED <<coreVars, memo, sing, lock, sta, par>>

NextTimer ==
  \/ \E delay \in 0..MaxDelay, debounceMode \in {"undefined", "false"},
        noTrailing \in BOOLEAN : T_Throttle(delay, debounceMode, noTrailing)
  \/ \E delay \in 0..MaxDelay, atBegin \in {"undefined", "false", "true"} :
        T_Debounce(delay, atBegin)
  \/ T_Call
  \/ T_Fire
  \/ T_Tick

SpecTimer == Init /\ [][NextTimer]_vars

\* ------------------------------------------------------- State instances
\* part_006:27-47 new State(initial), initial a Map or a list of entries:
\* the field initialiser of `$` (line 28) runs before the constructor's
\* body, which puts a new Map of the entries in __STATE__[__KEY__]
S_New(initial) ==
  /\ Len(sta.insts) < MaxStates
  /\ sta' = [sta EXCEPT
        !.insts = Append(@, [map |-> sta.global, holds |-> initial]),
        !.maps = Append(@, initial),
        !.global = Len(sta.maps) + 1]
  /\ UNCHANGED <<coreVars, memo, sing, lock, tmr, par>>

\* part_006:83-94 state.set(key, value), key a string
S_Set(i, key, value) ==
  /\ i \in DOMAIN sta.insts
  /\ sta.nOps < MaxStateOps
  /\ sta' = [sta EXCEPT !.nOps = @ + 1,
        !.maps[sta.insts[i].map][key] = value,
        !.insts[i].holds[key] = value]
  /\ UNCHANGED <<coreVars, memo, sing, lock, tmr, par>>

\* part_006:173-182 state.delete(key), key a string
S_Delete(i, key) ==
  /\ i \in DOMAIN sta.insts
  /\ sta.nOps < MaxStateOps
  /\ sta' = [sta EXCEPT !.nOps = @ + 1,
        !.maps[sta.insts[i].map][key] =
          IF MapHas(sta.maps[sta.insts[i].map], key) THEN NoEntry ELSE @,
        !.insts[i].holds[key] = NoEntry]
  /\ UNCHANGED <<coreVars, memo, sing, lock, tmr, par>>

\* part_006:190-193 state.clear()
S_Clear(i) ==
  /\ i \in DOMAIN sta.insts
  /\ sta.nOps < MaxStateOps
  /\ sta' = [sta EXCEPT !.nOps = @ + 1,
        !.maps[sta.insts[i].map] = EmptyMap,
        !.insts[i].holds = EmptyMap]
  /\ UNCHANGED <<coreVars, memo, sing, lock, tmr, par>>

NextState ==
  \/ \E initial \in StateMaps : S_New(initial)
  \/ \E i \in 1..MaxStates, key \in StateKeys, value \in StateValues :
        S_Set(i, key, value)
  \/ \E i \in 1..MaxStates, key \in StateKeys : S_Delete(i, key)
  \/ \E i \in 1..MaxStates : S_Clear(i)

SpecState == Init /\ [][NextState]_vars

\* ----------------------------------------------------------------- Params
SourceLists ==
  UNION {[1..n -> ParamSources] : n \in 1..MaxSources}

\* part_018:164-200 Params.parse(...values)
P_Parse(values) ==
  /\ par.nParse < MaxParses
  /\ LET done == Parse(values, par.lastIndex)
     IN par' = [lastIndex |-> done.lastIndex, params |-> done.params,
                sources |-> values, prev |-> <<>>,
                nParse |-> par.nParse + 1, nDistinct |-> 0]
  /\ UNCHANGED <<coreVars, memo, sing, lock, tmr, sta>>

\* part_018:50-56 params.distinct() on the instance parse returned
P_Distinct ==
  /\ par.nParse > 0
  /\ par.nDistinct < MaxDistincts
  /\ par' = [par EXCEPT !.prev = par.params,
                        !.params = Distinct(par.params, Keys(par.params)),
                        !.nDistinct = @ + 1]
  /\ UNCHANGED <<coreVars, memo, sing, lock, tmr, sta>>

NextParams ==
  \/ \E values \in SourceLists : P_Parse(values)
  \/ P_Distinct

SpecParams == Init /\ [][NextParams]_vars

\* ------------------------------------------------------------ properties
RouteCalls(s) == SelectSeq(s.calls, LAMBDA c : c.who = "route")
Matching(s) == {j \in 1..Len(s.tbl) : PatternTest(s.tbl[j].key, s.path)}
Started(s) == s.pc \notin {"idle", "h_match"}
LastCall(s) == s.calls[Len(s.calls)]

\* C1: every handleRequest call resolves to a Response, it never rejects
C1_AlwaysResponse ==
  \A i \in Slots : reqs[i].pc = "done" => reqs[i].res.t = "resp"

\* C2: only the handler of the first route key (in table order) whose
\* pattern matches the path is invoked, at most one route handler per request
C2_FirstMatchWins ==
  \A i \in Slots :
    LET s == reqs[i]
        rc == RouteCalls(s)
    IN /\ Len(rc) <= 1
       /\ Len(rc) = 1 =>
            /\ rc[1].idx \in Matching(s)
            /\ \A j \in Matching(s) : rc[1].idx <= j
            /\ rc[1].h = s.tbl[rc[1].idx].h

\* a path matching two routes was dispatched, the first handler threw
\* NotFound and the request is finished
C2_Witness ==
  \E i \in Slots :
    /\ reqs[i].pc = "done"
    /\ Cardinality(Matching(reqs[i])) >= 2
    /\ Len(RouteCalls(reqs[i])) = 1
    /\ reqs[i].thrown = "NotFound"

\* C3: when the cache holds a response for the request at the dispatcher's
\* lookup, handleRequest returns that response with x-function-cache-hit set
\* and calls no handler; a response not taken from the cache by the
\* dispatcher does not get the header
C3_CacheHitServed ==
  \A i \in Slots :
    LET s == reqs[i]
    IN /\ (Started(s) /\ s.held # NoResponse) =>
            /\ s.pc = "done"
            /\ s.res.t = "resp"
            /\ s.res.r = [s.held EXCEPT !.hit = TRUE]
            /\ s.calls = <<>>
       /\ (s.pc = "done" /\ s.held = NoResponse /\ s.res.t = "resp") =>
            ~s.res.r.hit

\* a request found in the cache has been answered from it
C3_Witness ==
  \E i \in Slots :
    /\ reqs[i].pc = "done"
    /\ reqs[i].held # NoResponse
    /\ reqs[i].res.r.hit

\* C4: when the route handler throws NotFound the table's 404 handler is
\* called with {} and its response is the result: no 500, no json() call
C4_NotFoundFallsThrough ==
  \A i \in Slots :
    LET s == reqs[i]
    IN s.thrown = "NotFound" =>
         /\ LastCall(s) = Call("table404", 0, EmptyParams, Lookup(s.tbl, Key404))
         /\ s.pc \in {"h_nf", "done"}
         /\ (s.pc = "done" /\ s.res.t = "resp") =>
              /\ s.res.r.src = Lookup(s.tbl, Key404).id
              /\ s.res.r.status # 500
              /\ s.json = 0

\* the handler of the matched route threw NotFound and the request was
\* answered by the 404 handler of its table
C4_Witness ==
  \E i \in Slots :
    /\ reqs[i].pc = "done"
    /\ reqs[i].thrown = "NotFound"
    /\ reqs[i].res.t = "resp"
    /\ reqs[i].res.r.src = "nf"

\* C5: when the route handler throws another error the result is a 500
\* response whose JSON body is { error: message }, and the 404 handler is
\* not called
C5_GenericErrorIs500 ==
  \A i \in Slots :
    LET s == reqs[i]
    IN (s.pc = "done" /\ s.thrown \notin {"", "NotFound"}) =>
         /\ s.res.t = "resp"
         /\ s.res.r.status = 500
         /\ s.res.r.err = s.thrownMsg
         /\ \A k \in 1..Len(s.calls) : s.calls[k].who # "table404"

RECURSIVE Fill(_, _)
\* the pathname a pattern gives when its named parts are replaced by groups
Fill(pat, groups) ==
  IF pat = <<>> THEN <<>>
  ELSE (IF Head(pat).t = "lit" THEN <<Head(pat).v>> ELSE groups[Head(pat).v])
       \o Fill(Tail(pat), groups)

Names(pat) == {pat[k].v : k \in {n \in 1..Len(pat) : pat[n].t # "lit"}}

\* C6: on a cache miss the handler of the matched route gets the named
\* groups of the match (one segment for :name, the trailing segments for
\* :name+); when no route matches, the table's 404 handler is called with {}
\* and no other handler is
C6_ParamsExtracted ==
  \A i \in Slots :
    LET s == reqs[i]
        rc == RouteCalls(s)
    IN (Started(s) /\ s.held = NoResponse) =>
         /\ Len(rc) = 1 =>
              LET key == s.tbl[rc[1].idx].key
              IN /\ DOMAIN rc[1].params = Names(key)
                 /\ Fill(key, rc[1].params) = s.path
                 /\ \A k \in 1..Len(key) :
                      key[k].t = "one" => Len(rc[1].params[key[k].v]) = 1
         /\ Matching(s) = {} =>
              s.calls = <<Call("table404", 0, EmptyParams, Lookup(s.tbl, Key404))>>

\* /hello/Ada was dispatched to the handler of /hello/:name with name = Ada
C6_Witness ==
  \E i \in Slots :
    LET s == reqs[i]
    IN /\ s.pc = "done"
       /\ s.path = <<"hello", "Ada">>
       /\ Len(RouteCalls(s)) = 1
       /\ s.tbl[RouteCalls(s)[1].idx].key = HelloName
       /\ RouteCalls(s)[1].params = ("name" :> <<"Ada">>)

StaticRoute(s) ==
  /\ Len(RouteCalls(s)) = 1
  /\ RouteCalls(s)[1].h.kind = "static"

\* C7: when static serving ends with a response of status 404, the client
\* gets the response of the 404 handler of the route table in use
C7_Static404Delegated ==
  \A i \in Slots :
    LET s == reqs[i]
    IN \A k \in 1..Len(s.calls) :
         s.calls[k].who = "module404" =>
           s.calls[k].h = Lookup(s.tbl, Key404)

\* C8: the cache holds no response put by serveStatic whose body exceeds the
\* maximum cacheable size
C8_NoOversizedEntry ==
  \A j \in 1..Len(cache) :
    cache[j].by = "static" => cache[j].r.size <= CACHE_MAX_SIZE

\* a file larger than the ceiling was read by a caching serveStatic handler
\* and the request is finished
C8_Witness ==
  \E i \in Slots :
    LET s == reqs[i]
    IN /\ s.pc = "done"
       /\ StaticRoute(s)
       /\ RouteCalls(s)[1].h.cache
       /\ s.built
       /\ s.sresp.size > CACHE_MAX_SIZE

\* C9: with caching enabled a freshly built response is stored iff its
\* content-length is strictly below the ceiling
C9_StoredIffBelowCeiling ==
  \A i \in Slots :
    LET s == reqs[i]
    IN (StaticRoute(s) /\ RouteCalls(s)[1].h.cache /\ s.built) =>
         (s.stored <=> HeaderNumber(s.sresp.cl) < CACHE_MAX_SIZE)

\* C10: when the file read fails the request is answered by the 404 handler
\* of the table and nothing is stored for it
C10_ReadFailureIsNotFound ==
  \A i \in Slots :
    LET s == reqs[i]
    IN (s.pc = "done" /\ s.readErr # "") =>
         /\ LastCall(s).who = "table404"
         /\ ~s.stored

C12_ThrowIsLocal ==
  [][\A i \in Slots :
       (reqs[i].thrown = "" /\ reqs'[i].thrown # "")
         => /\ cache' = cache
            /\ routes' = routes
            /\ \A j \in Slots \ {i} : reqs'[j] = reqs[j]]_vars

\* two requests were in flight together: the handler of one threw and its
\* call is over, the other was answered by its own handler
C12_Witness ==
  \E i \in Slots, j \in Slots :
    /\ i # j
    /\ reqs[i].pc = "done" /\ reqs[i].thrown = "Error"
    /\ reqs[j].pc = "done" /\ reqs[j].thrown = "" /\ reqs[j].calls # <<>>
    /\ reqs[j].res.t = "resp" /\ reqs[j].res.r.src = LastCall(reqs[j]).h.id

\* the entries of a route table
Entries(tbl) == {tbl[j] : j \in 1..Len(tbl)}

\* C13: after serve(userRoutes) the table used for dispatch holds exactly
\* the entries of userRoutes plus a 404 entry, the caller's if given and
\* defaultNotFoundPage otherwise, after every call of a sequence of calls
C13_TableIsUserOverDefault ==
  nServe > 0 =>
    Entries(routes) =
      Entries(served) \cup
        (IF HasKey(served, Key404) THEN {}
         ELSE {Route(Key404, DefaultNotFoundPage)})

\* C14: two createCache calls with the same id return the same instance,
\* whatever capacities they pass
C14_SameIdSameInstance ==
  \A p \in returned, q \in returned : p.id = q.id => p.inst = q.inst

\* two calls passed the same id and different capacities
C14_Witness ==
  \E p \in returned, q \in returned : p.id = q.id /\ p.capacity # q.capacity
\* the checks of a finished validateRequest call, from its inputs
OwnTerm(v) == v.terms[v.method]
MissingParam(v) == \E j \in 1..Len(OwnTerm(v).params) : OwnTerm(v).params[j] \notin v.params
MissingHeader(v) ==
  \E j \in 1..Len(OwnTerm(v).headers) :
    ToLowerCase(OwnTerm(v).headers[j]) \notin v.headers
MissingField(v) ==
  \E j \in 1..Len(OwnTerm(v).body) : OwnTerm(v).body[j] \notin BodyKeys(v.body)
IsError(v, status) ==
  v.res.t = "value" /\ v.res.error /\ v.res.status = status

\* C15: validateRequest checks method, query parameters, headers, body in
\* that order and returns the error of the first failing check: 405 with
\* "not allowed" for a method absent from terms, 400 for a missing
\* parameter, header or body field; the body is read only when the method,
\* parameter and header checks all passed
C15_ChecksInOrder ==
  val.pc = "done" =>
    IF val.method \notin DOMAIN val.terms
      THEN /\ IsError(val, MethodNotAllowed)
           /\ \E k \in DOMAIN val.res.msg :
                val.res.msg[k] = "is not allowed for the URL"
           /\ ~val.bodyRead
    ELSE IF MissingParam(val)
      THEN IsError(val, BadRequest) /\ val.res.msg[1] = "param" /\ ~val.bodyRead
    ELSE IF MissingHeader(val)
      THEN IsError(val, BadRequest) /\ val.res.msg[1] = "header" /\ ~val.bodyRead
    ELSE IF val.body \in {"o", "o_name", "o_name_age"} /\ MissingField(val)
      THEN IsError(val, BadRequest) /\ val.res.msg[1] = "field"
    ELSE TRUE

\* C16: validateRequest never rejects, and its result holds exactly one of
\* `error` and `body`
C16_ErrorXorBody ==
  val.pc = "done" =>
    /\ val.res.t = "value"
    /\ val.res.error # val.res.body
\* C17: json(data, init) always returns a Response and never throws; a
\* serialization failure is recovered by a single recursive self-call
C17_JsonNeverThrows ==
  /\ jsn.depth <= 1
  /\ jsn.pc = "done" => jsn.res.t = "resp"

\* C18: when serializing data throws, the Response json returns has status
\* 500 and the body { error: message }, whatever init the caller passed
C18_SerializationFailureIs500 ==
  (jsn.pc = "done" /\ JsonStringify(jsn.data0).threw) =>
    /\ jsn.res.t = "resp"
    /\ jsn.res.r.status = 500
    /\ jsn.res.r.body = "error"
    /\ jsn.res.r.msg = JsonStringify(jsn.data0).msg

\* C19: every Response of json carries content-type application/json;
\* charset=utf-8 and the three access-control-allow headers equal to *,
\* whatever data and init are, and for { a: 1 } the body parses back to
\* the data
C19_JsonHeaders ==
  jsn.pc = "done" =>
    /\ jsn.res.t = "resp"
    /\ jsn.res.r.headers["content-type"] = <<"application/json; charset=utf-8">>
    /\ \A n \in {"access-control-allow-origin", "access-control-allow-headers",
                  "access-control-allow-methods"} :
         jsn.res.r.headers[n] = <<"*">>
    /\ jsn.data0 = "obj" => jsn.res.r.body = "obj"
\* C20: lookupMediaType never throws, so serveStatic builds its response
\* for every file that was read successfully
C20_MediaTypeLookup ==
  \A i \in Slots :
    (reqs[i].built /\ reqs[i].readErr = "") =>
      reqs[i].thrown # LookupMediaType(reqs[i].path).name
\* the calls in the history of the memoized functions
IsCall(j) == memo.log[j].ev = "call"
\* the entry of id was evicted between events i and j
EvictedBetween(id, i, j) ==
  \E e \in (i + 1)..(j - 1) : memo.log[e].ev = "evict" /\ memo.log[e].id = id

C29_NoSharedResults ==
  \A j \in DOMAIN memo.log :
    (IsCall(j) /\ memo.log[j].fn \in {"F", "G"}) =>
      /\ ~memo.log[j].threw => memo.log[j].v.by = Wrapped(memo.log[j].fn)
      /\ (\A i \in 1..(j - 1) :
            ~(IsCall(i) /\ memo.log[i].fn = memo.log[j].fn
                /\ memo.log[i].arg = memo.log[j].arg))
           => memo.log[j].invoked

\* the k-th promise of p was settled before event j
SettledBefore(k, j) ==
  \E e \in 1..(j - 1) :
    memo.log[e].ev \in {"fulfil", "evict"} /\ memo.log[e].v = MemoValue("p", k)

\* C30: a rejected promise is evicted and the next call of P with the same
\* arguments invokes p again; while the promise is pending the calls with
\* the same arguments return it without invoking p; a fulfilled promise
\* stays cached
C30_RejectedPromiseEvicted ==
  /\ \A k \in DOMAIN memo.pstate :
       LET e == memo.cache[memo.pstate[k].id]
       IN /\ memo.pstate[k].st = "rejected" => ~(e.has /\ e.v = MemoValue("p", k))
          /\ memo.pstate[k].st = "fulfilled" => (e.has /\ e.v = MemoValue("p", k))
  /\ \A i \in DOMAIN memo.log, j \in DOMAIN memo.log :
       (i < j /\ IsCall(i) /\ IsCall(j) /\ memo.log[i].fn = "P"
          /\ memo.log[j].fn = "P" /\ memo.log[i].arg = memo.log[j].arg
          /\ memo.log[i].invoked)
         => IF SettledBefore(memo.log[i].v.n, j)
              \* the first call after the rejection invokes p again
              THEN (memo.pstate[memo.log[i].v.n].st = "rejected"
                    /\ \A c \in (i + 1)..(j - 1) :
                         ~(IsCall(c) /\ memo.log[c].fn = "P"
                             /\ memo.log[c].arg = memo.log[j].arg))
                     => memo.log[j].invoked
              ELSE ~memo.log[j].invoked /\ memo.log[j].v = memo.log[i].v
\* no reset() was called between events i and j of the singleton history
SameSpan(i, j) == \A e \in i..j : sing.log[e].ev # "reset"
\* event j is the first wrapper call of its span
FirstOfSpan(j) ==
  /\ sing.log[j].ev = "call"
  /\ j = 1 \/ sing.log[j - 1].ev = "reset"

IsSeries(i, j) ==
  /\ i \in DOMAIN tmr.calls /\ j \in DOMAIN tmr.calls /\ i <= j
  /\ \A k \in i..(j - 1) : tmr.calls[k + 1] - tmr.calls[k] < tmr.delay
  /\ i > 1 => tmr.calls[i] - tmr.calls[i - 1] >= tmr.delay
  /\ j < Len(tmr.calls) => tmr.calls[j + 1] - tmr.calls[j] >= tmr.delay

\* the series ending with call j is over: a later series has begun, or
\* delay ms have passed and the timer has run
SeriesOver(j) == j < Len(tmr.calls) \/ tmr.pending = NoTimer

ExecsOf(i, j) == {e \in DOMAIN tmr.log : tmr.log[e].arg \in i..j}

C25_ThrottleEveryDelay ==
  tmr.kind = "throttle" =>
    /\ \A i, j \in DOMAIN tmr.calls :
         (i < j /\ tmr.calls[j] - tmr.calls[i] > tmr.delay) =>
           \E e \in DOMAIN tmr.log :
             tmr.calls[i] <= tmr.log[e].t /\ tmr.log[e].t <= tmr.calls[j]
    /\ \A e, f \in DOMAIN tmr.log :
         e < f => tmr.log[f].t - tmr.log[e].t >= tmr.delay
    /\ tmr.noTrailing =>
         \A e \in DOMAIN tmr.log :
           tmr.log[e].t <= tmr.calls[Len(tmr.calls)]
    /\ (~tmr.noTrailing /\ tmr.calls # <<>> /\ tmr.pending = NoTimer) =>
         \E e \in DOMAIN tmr.log : tmr.log[e].arg = Len(tmr.calls)
\* C26: every State instance holds exactly the entries it was constructed
\* with, as changed by the set, delete and clear calls made on it since:
\* has, get and size answer from those entries
C26_StateHoldsInitial ==
  \A i \in DOMAIN sta.insts :
    LET map == sta.maps[sta.insts[i].map]
        holds == sta.insts[i].holds
    IN /\ \A k \in StateKeys :
            /\ MapHas(map, k) <=> holds[k] # NoEntry
            /\ holds[k] # NoEntry => MapGet(map, k) = holds[k]
       /\ MapSize(map) = MapSize(holds)
\* source i of the last parse call defines key k
Defines(i, k) ==
  \E n \in DOMAIN par.sources[i].entries : par.sources[i].entries[n].k = k

\* C27: the Params returned by parse(s1, ..., sn) has, for every key,
\* the value of every source that defines the key among getAll(key), and
\* the value of the rightmost such source as get(key)
C27_ParseMergesLeftToRight ==
  (par.nParse > 0 /\ par.nDistinct = 0) =>
    \A i \in DOMAIN par.sources :
      \A n \in DOMAIN par.sources[i].entries :
        LET e == par.sources[i].entries[n]
            all == GetAll(par.params, e.k)
        IN /\ \E j \in DOMAIN all : all[j] = e.v
           /\ (\A later \in (i + 1)..Len(par.sources) : ~Defines(later, e.k))
                => Get(par.params, e.k) = e.v

\* C28: after distinct() every key that was present has one value, the
\* last it had before, no key has come or gone, and a second distinct()
\* leaves the parameters as they are
C28_DistinctKeepsLast ==
  par.nDistinct > 0 =>
    /\ Keys(par.params) = Keys(par.prev)
    /\ \A k \in Keys(par.prev) :
         GetAll(par.params, k) = <<Get(par.prev, k)>>
    /\ par.nDistinct > 1 => par.params = par.prev

\* distinct() has been called twice on parameters in which a key had two
\* different values
C28_Witness ==
  /\ par.nDistinct = 2
  /\ par.nParse = 2
  /\ Len(par.sources) = 2
  /\ GetAll(par.params, KeyA) = <<(<<"2">>)>>
  /\ GetAll(par.params, KeyB) = <<(<<"3">>)>>
====
